---------------------------- MODULE Spec2Model ----------------------------
(***************************************************************************)
(* A model of srfax/srfax.py: the SRFax client's request construction,     *)
(* input validation and response normalisation.                            *)
(*                                                                         *)
(* Python values are tagged tuples <<tag, payload>>.  A Python string is a *)
(* sequence of one-character strings, so that len(), indexing, slicing,    *)
(* concatenation and the regular expressions are computed, not assumed.    *)
(***************************************************************************)
EXTENDS Integers, Sequences, FiniteSets, TLC

VARIABLES client, to_fax_number, pc, call, sent, outcome

vars == <<client, to_fax_number, pc, call, sent, outcome>>

---------------------------------------------------------------------------
(* Python values *)

NoneV == <<"none">>
TrueV == <<"bool", TRUE>>
Str(s) == <<"str", s>>
Text(s) == <<"text", s>>
Num(n) == <<"int", n>>
Obj(f) == <<"object", f>>
Dict(f) == <<"dict", f>>
List(xs) == <<"list", xs>>

Tag(v) == v[1]
Val(v) == v[2]

EmptyMap == [k \in {} |-> NoneV]

IsNone(v) == Tag(v) = "none"
IsList(v) == Tag(v) = "list"
\* suds.sax.text.Text subclasses the (unicode) string type
IsText(v) == Tag(v) = "text"
IsBaseString(v) == Tag(v) \in {"str", "text"}

\* Python truthiness (`not x`, `x or y`)
Truthy(v) ==
    CASE Tag(v) = "none" -> FALSE
      [] Tag(v) = "bool" -> Val(v)
      [] Tag(v) = "int" -> Val(v) # 0
      [] Tag(v) \in {"str", "text", "list"} -> Len(Val(v)) > 0
      [] Tag(v) \in {"object", "dict"} -> DOMAIN Val(v) # {}

\* Python `a or b`
Or(a, b) == IF Truthy(a) THEN a ELSE b

\* Python == between values (a Text equals the str with the same characters)
PyEq(a, b) ==
    IF IsBaseString(a) /\ IsBaseString(b) THEN Val(a) = Val(b)
    ELSE Tag(a) = Tag(b) /\ a = b

\* Exceptions and the outcome of a call
\* `site` is the raise statement, `arg` the value formatted into the message
\* (or the message itself), `key` a parameter key named by the message
Exc(type, site, arg, key, error_code, cause, retry) ==
    [type |-> type, site |-> site, arg |-> arg, key |-> key,
     error_code |-> error_code, cause |-> cause, retry |-> retry]

NoExc == Exc("", "", NoneV, "", "", "", FALSE)

\* an exception of Python's own or of a plain raise statement
PyExc(type, site, arg) == Exc(type, site, arg, "", "", "", FALSE)

Return(v) == [kind |-> "return", value |-> v, exc |-> NoExc]
Raise(e) == [kind |-> "raise", value |-> NoneV, exc |-> e]

\* class SRFaxError: error_code, message, cause, retry (default False)
SRFaxError(error_code, site, message, cause, retry) ==
    Exc("SRFaxError", site, message, "", error_code, cause, retry)

---------------------------------------------------------------------------
(* Phone numbers *)

Digit == {"0", "1", "2", "3", "4", "5", "6", "7", "8", "9"}

MinDigits == 7
MaxDigits == 15

AllDigits(s) == \A i \in 1..Len(s) : s[i] \in Digit

\* RE_E164 = re.compile(r'^\+\d{7,15}$'), used with .match(): '$' matches at
\* the end of the string and also just before a newline that ends the string
RE_E164_match(s) ==
    /\ Len(s) >= 1
    /\ s[1] = "+"
    /\ LET rest == SubSeq(s, 2, Len(s))
           body == IF Len(rest) > 0 /\ rest[Len(rest)] = "\n"
                   THEN SubSeq(rest, 1, Len(rest) - 1)
                   ELSE rest
       IN  \/ /\ AllDigits(rest)
              /\ Len(rest) >= MinDigits /\ Len(rest) <= MaxDigits
           \/ /\ AllDigits(body)
              /\ Len(body) >= MinDigits /\ Len(body) <= MaxDigits

\* RE_NANP = re.compile(r'^\+1')
RE_NANP_match(s) == Len(s) >= 2 /\ s[1] = "+" /\ s[2] = "1"

is_e164_number(number) == Tag(number) = "str" /\ RE_E164_match(Val(number))

is_nanp_number(number) == Tag(number) = "str" /\ RE_NANP_match(Val(number))

\* str(x) of a string element
str(v) == Str(Val(v))

IntlPrefix == <<"0", "1", "1">>

\* number[1:] for NANP numbers, '011' + number[1:] for the others
Dialable(number) ==
    IF is_nanp_number(number)
    THEN Str(Tail(Val(number)))
    ELSE Str(IntlPrefix \o Tail(Val(number)))

\* the for loop of verify_fax_numbers from index i on: the list is rewritten
\* in place, element by element, until a number fails the E.164 check
RECURSIVE VerifyLoop(_, _)
VerifyLoop(xs, i) ==
    IF i > Len(xs) THEN [raised |-> FALSE, list |-> xs, bad |-> NoneV]
    ELSE LET number == str(xs[i]) IN
         IF ~is_e164_number(number)
         THEN [raised |-> TRUE, list |-> xs, bad |-> number]
         ELSE VerifyLoop([xs EXCEPT ![i] = Dialable(number)], i + 1)

\* verify_fax_numbers(to_fax_number): `out` is the outcome, `arg` is the
\* caller's argument object after the call
verify_fax_numbers(arg) ==
    IF ~IsBaseString(arg) /\ ~IsList(arg)
    THEN [out |-> Raise(PyExc("TypeError", "to_fax_number", arg)),
          arg |-> arg]
    ELSE LET wrapped == IsBaseString(arg)
             r == VerifyLoop(IF wrapped THEN <<arg>> ELSE Val(arg), 1)
         IN  [out |-> IF r.raised
                      THEN Raise(PyExc("TypeError", "e164", r.bad))
                      ELSE Return(List(r.list)),
              arg |-> IF wrapped THEN arg ELSE List(r.list)]

---------------------------------------------------------------------------
(* Response normalisation *)

Success == <<"S", "u", "c", "c", "e", "s", "s">>
ErrorCode == <<"E", "r", "r", "o", "r", "C", "o", "d", "e">>

\* x in s for two strings: s holds x as a substring
IsSubstring(x, s) ==
    \E i \in 0..(Len(s) - Len(x)) : SubSeq(s, i + 1, i + Len(x)) = x

\* json.dumps of one value of a record: text and null are serialisable, a
\* nested suds object is not
JsonSerialisable(v) == Tag(v) \in {"none", "str", "text", "int", "bool"}

\* json.loads(json.dumps(v)) of a serialisable value: text comes back a string
JsonRoundTrip(v) == IF IsBaseString(v) THEN Str(Val(v)) ELSE v

\* result[i] = ... of one truthy element: `failed` is an exception raised by
\* str(), dict() or json.dumps()
ConvertElement(e) ==
    IF IsText(e) THEN [failed |-> FALSE, value |-> Str(Val(e))]
    ELSE IF Tag(e) \notin {"object", "dict"}
    THEN [failed |-> TRUE, value |-> e]
    ELSE IF \E k \in DOMAIN Val(e) : ~JsonSerialisable(Val(e)[k])
    THEN [failed |-> TRUE, value |-> e]
    ELSE [failed |-> FALSE,
          value |-> Dict([k \in DOMAIN Val(e) |-> JsonRoundTrip(Val(e)[k])])]

\* the loop over a list result from index i on; falsy elements are skipped
RECURSIVE ConvertLoop(_, _)
ConvertLoop(xs, i) ==
    IF i > Len(xs) THEN [failed |-> FALSE, value |-> List(xs)]
    ELSE IF ~Truthy(xs[i]) THEN ConvertLoop(xs, i + 1)
    ELSE LET c == ConvertElement(xs[i]) IN
         IF c.failed THEN [failed |-> TRUE, value |-> List(xs)]
         ELSE ConvertLoop([xs EXCEPT ![i] = c.value], i + 1)

\* the try block of process_response
ConvertResult(result) ==
    IF IsList(result) THEN ConvertLoop(Val(result), 1)
    ELSE IF IsText(result) THEN [failed |-> FALSE, value |-> Str(Val(result))]
    ELSE [failed |-> FALSE, value |-> result]

\* 'ErrorCode' in x: "yes", "no", or "error" where Python raises TypeError
\* (x is not a container)
ContainsErrorCode(x) ==
    CASE Tag(x) \in {"dict", "object"} ->
            IF "ErrorCode" \in DOMAIN Val(x) THEN "yes" ELSE "no"
      [] Tag(x) \in {"str", "text"} ->
            IF IsSubstring(ErrorCode, Val(x)) THEN "yes" ELSE "no"
      [] OTHER -> "error"

\* the branch of process_response taken when Status is not 'Success'
StatusFailure(result) ==
    IF IsList(result) /\ Len(Val(result)) = 1
    THEN LET first == Val(result)[1]
             has == ContainsErrorCode(first)
         IN  IF has = "error"
             THEN Raise(PyExc("TypeError", "in_errmsg", first))
             ELSE IF has = "no"
             THEN Raise(SRFaxError("REQUESTFAILED", "status", result, "", FALSE))
             ELSE IF Tag(first) \in {"str", "text"}
             THEN Raise(PyExc("TypeError", "index_errmsg", first))
             ELSE Raise(SRFaxError("REQUESTFAILED", "status",
                                   Val(first)["ErrorCode"], "", FALSE))
    ELSE Raise(SRFaxError("REQUESTFAILED", "status", result, "", FALSE))

\* retry=True left out, so that the default False applies
InvalidResponse_no_retry(site, message, cause) ==
    SRFaxError("INVALIDRESPONSE", site, message, cause, FALSE)

\* SRFaxError('INVALIDRESPONSE', ..., retry=True)
InvalidResponse(site, message, cause) ==
    SRFaxError("INVALIDRESPONSE", site, message, cause, TRUE)

\* `if not result: result = True`
SuccessValue_falsy(result) == IF ~Truthy(result) THEN TrueV ELSE result

\* `if result is None: result = True`
SuccessValue(result) == IF IsNone(result) THEN TrueV ELSE result

\* process_response(response); a reply is None or a suds object
process_response(response) ==
    IF ~Truthy(response)
    THEN Raise(InvalidResponse("empty", response, ""))
    ELSE IF "Status" \notin DOMAIN Val(response)
            \/ "Result" \notin DOMAIN Val(response)
    THEN Raise(InvalidResponse("fields", response, ""))
    ELSE LET c == ConvertResult(Val(response)["Result"]) IN
         IF c.failed
         THEN Raise(InvalidResponse("convert", NoneV, "Exception"))
         ELSE IF ~PyEq(Val(response)["Status"], Str(Success))
         THEN StatusFailure(c.value)
         ELSE Return(SuccessValue(c.value))

---------------------------------------------------------------------------
(* Files *)

Dir == <<"/", "t">>
InDir(name) == Dir \o <<"/", name>>

\* the files the caller's paths name: a directory, seven non-empty files, an
\* empty file; any other path does not exist
FileNames == {"a", "b", "c", "d", "e", "f", "g"}

FileBytes(name) ==
    CASE name = "a" -> <<77>>
      [] name = "b" -> <<77, 97>>
      [] name = "c" -> <<77, 97, 110>>
      [] name = "d" -> <<255, 254, 253, 252>>
      [] name = "e" -> <<0>>
      [] name = "f" -> <<1, 2>>
      [] name = "g" -> <<3>>

FileSystem ==
    [p \in {InDir(n) : n \in FileNames} \cup {<<"h">>} |->
        [isfile |-> TRUE,
         content |-> IF p = <<"h">> THEN <<104, 105>> ELSE FileBytes(p[Len(p)])]]
    @@ (Dir :> [isfile |-> FALSE, content |-> <<>>])
    @@ (InDir("z") :> [isfile |-> TRUE, content |-> <<>>])

B64Alphabet ==
    <<"A", "B", "C", "D", "E", "F", "G", "H", "I", "J", "K", "L", "M",
      "N", "O", "P", "Q", "R", "S", "T", "U", "V", "W", "X", "Y", "Z",
      "a", "b", "c", "d", "e", "f", "g", "h", "i", "j", "k", "l", "m",
      "n", "o", "p", "q", "r", "s", "t", "u", "v", "w", "x", "y", "z",
      "0", "1", "2", "3", "4", "5", "6", "7", "8", "9", "+", "/">>

B64(n) == B64Alphabet[n + 1]

\* base64.b64encode: three bytes make four characters, a shorter tail is padded
RECURSIVE b64encode(_)
b64encode(bytes) ==
    IF Len(bytes) = 0 THEN <<>>
    ELSE IF Len(bytes) = 1
    THEN <<B64(bytes[1] \div 4), B64((bytes[1] % 4) * 16), "=", "=">>
    ELSE IF Len(bytes) = 2
    THEN <<B64(bytes[1] \div 4),
           B64((bytes[1] % 4) * 16 + bytes[2] \div 16),
           B64((bytes[2] % 16) * 4), "=">>
    ELSE <<B64(bytes[1] \div 4),
           B64((bytes[1] % 4) * 16 + bytes[2] \div 16),
           B64((bytes[2] % 16) * 4 + bytes[3] \div 64),
           B64(bytes[3] % 64)>>
         \o b64encode(SubSeq(bytes, 4, Len(bytes)))

\* get_file_content(filepath)
get_file_content(filepath) ==
    IF Val(filepath) \notin DOMAIN FileSystem
    THEN Raise(PyExc("Exception", "file_missing", filepath))
    ELSE IF ~FileSystem[Val(filepath)].isfile
    THEN Raise(PyExc("Exception", "not_a_file", filepath))
    ELSE IF Len(FileSystem[Val(filepath)].content) = 0
    THEN Raise(PyExc("Exception", "file_empty", filepath))
    ELSE Return(Str(b64encode(FileSystem[Val(filepath)].content)))

\* os.path.basename(path): what follows the last '/'
basename(path) ==
    LET s == Val(path)
        slashes == {i \in 1..Len(s) : s[i] = "/"}
        last == IF slashes = {} THEN 0
                ELSE CHOOSE i \in slashes : \A j \in slashes : j <= i
    IN  Str(SubSeq(s, last + 1, Len(s)))

---------------------------------------------------------------------------
(* Requests *)

MaxFiles == 5

BROADCAST == <<"B", "R", "O", "A", "D", "C", "A", "S", "T">>
SINGLE == <<"S", "I", "N", "G", "L", "E">>

\* '|'.join(xs)
RECURSIVE Join(_)
Join(xs) ==
    IF Len(xs) = 0 THEN <<>>
    ELSE IF Len(xs) = 1 THEN Val(xs[1])
    ELSE Val(xs[1]) \o <<"|">> \o Join(Tail(xs))

Min2(a, b) == IF a < b THEN a ELSE b

\* numbering from 0: '%d' % i in place of '%d' % (i + 1)
NumberedKey_from_zero(base, n) == base \o ToString(n - 1)

\* 'sFileName_%d' % n
NumberedKey(base, n) == base \o ToString(n)

\* verify_parameters(params): the exceptions the loop can raise; which of
\* several None values is met first depends on the dict's iteration order
verify_parameters(params) ==
    { Exc("TypeError", "not_set", NoneV, key, "", "", FALSE) :
        key \in {k \in DOMAIN params : IsNone(params[k])} }

\* an operation that ended before any request, and one endpoint invocation
Local(out) == [sent |-> <<>>, normalized |-> FALSE, out |-> out]

\* a second invocation after the first one threw
process_request_retry(method, params, answer) ==
    IF answer.throws
    THEN [sent |-> <<[method |-> method, params |-> params],
                     [method |-> method, params |-> params]>>,
          normalized |-> FALSE,
          out |-> Raise(SRFaxError("REQUESTFAILED", "soap", NoneV,
                                   "TransportError", TRUE))]
    ELSE [sent |-> <<[method |-> method, params |-> params]>>,
          normalized |-> TRUE,
          out |-> process_response(answer.response)]

\* process_request(method, params); `answer` is what the endpoint does
process_request(method, params, answer) ==
    IF answer.throws
    THEN [sent |-> <<[method |-> method, params |-> params]>>,
          normalized |-> FALSE,
          out |-> Raise(SRFaxError("REQUESTFAILED", "soap", NoneV,
                                   "TransportError", TRUE))]
    ELSE [sent |-> <<[method |-> method, params |-> params]>>,
          normalized |-> TRUE,
          out |-> process_response(answer.response)]

\* the file loop of queue_fax from index i on
RECURSIVE QueueFiles(_, _, _)
QueueFiles(params, filepath, i) ==
    IF i > Len(filepath) THEN [raised |-> FALSE, params |-> params]
    ELSE LET content == get_file_content(filepath[i]) IN
         IF content.kind = "raise"
         THEN [raised |-> TRUE, out |-> content]
         ELSE QueueFiles((NumberedKey("sFileName_", i) :> basename(filepath[i]))
                         @@ (NumberedKey("sFileContent_", i) :> content.value)
                         @@ params,
                         filepath, i + 1)

\* 'BROADCAST' if len(to_fax_number) >= 1 else 'SINGLE'
FaxType_at_least_one(numbers) == IF Len(numbers) >= 1 THEN BROADCAST ELSE SINGLE

\* 'BROADCAST' if len(to_fax_number) > 1 else 'SINGLE'
FaxType(numbers) == IF Len(numbers) > 1 THEN BROADCAST ELSE SINGLE

\* the client's defaults taken before the per-call values
queue_fax_params_defaults_first(self, fax_type, joined, caller_id, sender_email, account_code) ==
    [access_id |-> self.access_id,
     access_pwd |-> self.access_pwd,
     sCallerID |-> Or(self.caller_id, caller_id),
     sSenderEmail |-> Or(self.sender_email, sender_email),
     sFaxType |-> Str(fax_type),
     sToFaxNumber |-> Str(joined),
     sAccountCode |-> Or(Or(self.account_code, account_code), Str(<<>>))]

\* the params dict of queue_fax
queue_fax_params(self, fax_type, joined, caller_id, sender_email, account_code) ==
    [access_id |-> self.access_id,
     access_pwd |-> self.access_pwd,
     sCallerID |-> Or(caller_id, self.caller_id),
     sSenderEmail |-> Or(sender_email, self.sender_email),
     sFaxType |-> Str(fax_type),
     sToFaxNumber |-> Str(joined),
     sAccountCode |-> Or(Or(account_code, self.account_code), Str(<<>>))]

\* queue_fax after verify_fax_numbers returned `numbers`
queue_fax_request(self, numbers, filepath, caller_id, sender_email, account_code, answer) ==
    LET fax_type == FaxType(numbers)
        joined == Join(numbers)
        files == IF IsBaseString(filepath) THEN <<filepath>> ELSE Val(filepath)
        params == queue_fax_params(self, fax_type, joined, caller_id,
                                   sender_email, account_code)
    IN  IF ~IsBaseString(filepath) /\ ~IsList(filepath)
        THEN {Local(Raise(PyExc("TypeError", "filepath", filepath)))}
        ELSE IF Len(files) > MaxFiles
        THEN {Local(Raise(PyExc("Exception", "too_many_files", filepath)))}
        ELSE IF verify_parameters(params) # {}
        THEN {Local(Raise(e)) : e \in verify_parameters(params)}
        ELSE LET f == QueueFiles(params, files, 1) IN
             IF f.raised THEN {Local(f.out)}
             ELSE {process_request("Queue_Fax", f.params, answer)}

\* `if len(response) == 1: response = response[0]`
\* (a suds object has the length of its field list and is indexed by position)
unwrap_single(response) ==
    CASE Tag(response) \in {"none", "bool", "int"} ->
            Raise(PyExc("TypeError", "len", response))
      [] Tag(response) \in {"str", "text"} ->
            IF Len(Val(response)) = 1
            THEN Return(<<Tag(response), <<Val(response)[1]>> >>)
            ELSE Return(response)
      [] Tag(response) = "list" ->
            IF Len(Val(response)) = 1
            THEN Return(Val(response)[1])
            ELSE Return(response)
      [] Tag(response) = "dict" ->
            IF Cardinality(DOMAIN Val(response)) = 1
            THEN Raise(PyExc("KeyError", "index", response))
            ELSE Return(response)
      [] Tag(response) = "object" ->
            IF Cardinality(DOMAIN Val(response)) = 1
            THEN Return(Val(response)[CHOOSE k \in DOMAIN Val(response) : TRUE])
            ELSE Return(response)

\* the tail of get_fax_status and of retrieve_fax
Unwrapped(p) ==
    IF p.out.kind = "return"
    THEN [p EXCEPT !.out = unwrap_single(p.out.value)]
    ELSE p

get_fax_status_request(self, fax_id, answer) ==
    LET params == [access_id |-> self.access_id,
                   access_pwd |-> self.access_pwd,
                   sFaxDetailID |-> fax_id]
    IN  IF verify_parameters(params) # {}
        THEN {Local(Raise(e)) : e \in verify_parameters(params)}
        ELSE {Unwrapped(process_request("Get_FaxStatus", params, answer))}

get_fax_inbox_request(self, period, answer) ==
    LET params == [access_id |-> self.access_id,
                   access_pwd |-> self.access_pwd,
                   sPeriod |-> period]
    IN  IF verify_parameters(params) # {}
        THEN {Local(Raise(e)) : e \in verify_parameters(params)}
        ELSE {process_request("Get_Fax_Inbox", params, answer)}

get_fax_outbox_request(self, period, answer) ==
    LET params == [access_id |-> self.access_id,
                   access_pwd |-> self.access_pwd,
                   sPeriod |-> period]
    IN  IF verify_parameters(params) # {}
        THEN {Local(Raise(e)) : e \in verify_parameters(params)}
        ELSE {process_request("Get_Fax_Outbox", params, answer)}

retrieve_fax_request(self, fax_filename, folder, answer) ==
    LET params == [access_id |-> self.access_id,
                   access_pwd |-> self.access_pwd,
                   sFaxFileName |-> fax_filename,
                   sDirection |-> folder]
    IN  IF verify_parameters(params) # {}
        THEN {Local(Raise(e)) : e \in verify_parameters(params)}
        ELSE {Unwrapped(process_request("Retrieve_Fax", params, answer))}

\* the file-name loop of delete_fax
DeleteFiles(params, fax_filename) ==
    [k \in {NumberedKey("sFileName_", i) : i \in 1..Len(fax_filename)} |->
        fax_filename[CHOOSE i \in 1..Len(fax_filename) :
                        NumberedKey("sFileName_", i) = k]]
    @@ params

delete_fax_request(self, fax_filename, folder, answer) ==
    LET names == IF Tag(fax_filename) = "str" THEN <<fax_filename>>
                 ELSE Val(fax_filename)
        params == [access_id |-> self.access_id,
                   access_pwd |-> self.access_pwd,
                   sDirection |-> folder]
    IN  IF Tag(fax_filename) # "str" /\ ~IsList(fax_filename)
        THEN {Local(Raise(PyExc("TypeError", "fax_filename", fax_filename)))}
        ELSE IF Len(names) > MaxFiles
        THEN {Local(Raise(PyExc("Exception", "too_many_files", fax_filename)))}
        ELSE IF verify_parameters(params) # {}
        THEN {Local(Raise(e)) : e \in verify_parameters(params)}
        ELSE {process_request("Delete_Fax", DeleteFiles(params, names), answer)}

---------------------------------------------------------------------------
(* State *)

\* client: the SRFax object's fields; to_fax_number: the caller's destination
\* object, handed to every queue_fax call; pc: "idle" between calls, "done"
\* when a call has ended; call: the operation and its arguments as they were
\* on entry; sent: the endpoint invocations of the call; outcome: how it ended

NoCall == [op |-> "none"]
NoOutcome == [kind |-> "none", value |-> NoneV, exc |-> NoExc]

\* SRFax.__init__
SRFax(access_id, access_pwd, caller_id, sender_email, account_code) ==
    [access_id |-> access_id, access_pwd |-> access_pwd,
     caller_id |-> caller_id, sender_email |-> sender_email,
     account_code |-> account_code]

\* the end of an operation that produced r
Ends(r, c) ==
    /\ sent' = r.sent
    /\ outcome' = r.out
    /\ call' = c @@ [normalized |-> r.normalized]
    /\ pc' = "done"

\* the caller takes the result; the call's locals are gone
Done ==
    /\ pc = "done"
    /\ pc' = "idle"
    /\ call' = NoCall
    /\ sent' = <<>>
    /\ outcome' = NoOutcome
    /\ UNCHANGED <<client, to_fax_number>>

\* a direct call of the static method SRFax.verify_fax_numbers
VerifyFaxNumbers ==
    /\ pc = "idle"
    /\ to_fax_number' = verify_fax_numbers(to_fax_number).arg
    /\ Ends(Local(verify_fax_numbers(to_fax_number).out),
            [op |-> "verify_fax_numbers", to_fax_number |-> to_fax_number])
    /\ UNCHANGED client

\* a direct call of the static method SRFax.process_response
ProcessResponse(response) ==
    /\ pc = "idle"
    /\ Ends([sent |-> <<>>, normalized |-> TRUE,
             out |-> process_response(response)],
            [op |-> "process_response", response |-> response])
    /\ UNCHANGED <<client, to_fax_number>>

queue_fax(filepath, caller_id, sender_email, account_code, answer) ==
    /\ pc = "idle"
    /\ LET v == verify_fax_numbers(to_fax_number)
           c == [op |-> "queue_fax", to_fax_number |-> to_fax_number,
                 filepath |-> filepath, caller_id |-> caller_id,
                 sender_email |-> sender_email,
                 account_code |-> account_code, answer |-> answer]
       IN  /\ to_fax_number' = v.arg
           /\ IF v.out.kind = "raise"
              THEN Ends(Local(v.out), c)
              ELSE \E r \in queue_fax_request(client, Val(v.out.value),
                                              filepath, caller_id,
                                              sender_email, account_code,
                                              answer) :
                      Ends(r, c)
    /\ UNCHANGED client

get_fax_status(fax_id, answer) ==
    /\ pc = "idle"
    /\ \E r \in get_fax_status_request(client, fax_id, answer) :
          Ends(r, [op |-> "get_fax_status", fax_id |-> fax_id,
                   answer |-> answer])
    /\ UNCHANGED <<client, to_fax_number>>

get_fax_inbox(period, answer) ==
    /\ pc = "idle"
    /\ \E r \in get_fax_inbox_request(client, period, answer) :
          Ends(r, [op |-> "get_fax_inbox", period |-> period,
                   answer |-> answer])
    /\ UNCHANGED <<client, to_fax_number>>

get_fax_outbox(period, answer) ==
    /\ pc = "idle"
    /\ \E r \in get_fax_outbox_request(client, period, answer) :
          Ends(r, [op |-> "get_fax_outbox", period |-> period,
                   answer |-> answer])
    /\ UNCHANGED <<client, to_fax_number>>

retrieve_fax(fax_filename, folder, answer) ==
    /\ pc = "idle"
    /\ \E r \in retrieve_fax_request(client, fax_filename, folder, answer) :
          Ends(r, [op |-> "retrieve_fax", fax_filename |-> fax_filename,
                   folder |-> folder, answer |-> answer])
    /\ UNCHANGED <<client, to_fax_number>>

delete_fax(fax_filename, folder, answer) ==
    /\ pc = "idle"
    /\ \E r \in delete_fax_request(client, fax_filename, folder, answer) :
          Ends(r, [op |-> "delete_fax", fax_filename |-> fax_filename,
                   folder |-> folder, answer |-> answer])
    /\ UNCHANGED <<client, to_fax_number>>

---------------------------------------------------------------------------
(* Inputs *)

MaxDests == 2
MaxResultLen == 2
ExtraFiles == 1

SeqsUpTo(S, n) == UNION { [1..k -> S] : k \in 0..n }

RECURSIVE Rep(_, _)
Rep(c, n) == IF n <= 0 THEN <<>> ELSE <<c>> \o Rep(c, n - 1)

Digits(lead, n) == IF n = 0 THEN <<>> ELSE <<lead>> \o Rep("5", n - 1)

DigitCounts == {0, MinDigits - 1, MinDigits, MaxDigits, MaxDigits + 1}

NumberSamples ==
    { Str(p \o Digits(lead, n) \o s) :
        p \in {<<>>, <<"+">>}, lead \in {"1", "4"}, n \in DigitCounts,
        s \in {<<>>, <<"x">>, <<"\n">>} }

Nanp == Str(<<"+">> \o Digits("1", 11))
Intl == Str(<<"+">> \o Digits("4", 12))
Short == Str(<<"+">> \o Digits("4", MinDigits - 1))

DestinationSamples ==
    { List(xs) : xs \in SeqsUpTo({Nanp, Intl, Short}, MaxDests) }
    \cup {Nanp, Short, NoneV}

\* None, the empty string and a non-empty string
OptionalStrings(c) == {NoneV, Str(<<>>), Str(<<c>>)}

E001 == <<"E", "0", "0", "1">>
Failed == <<"F", "a", "i", "l", "e", "d">>

ElementSamples ==
    { NoneV, Text(<<>>), Text(<<"a">>), Text(<<"b">>), Text(ErrorCode),
      Str(<<"s">>), Num(0), Num(5), Obj(EmptyMap),
      Obj([ErrorCode |-> Text(E001)]),
      Obj([ErrorCode |-> Text(E001), Detail |-> NoneV]),
      Obj([Detail |-> Text(<<"d">>)]),
      Obj([Detail |-> Obj([Line |-> Text(<<"d">>)])]) }

ScalarSamples ==
    { NoneV, Text(<<"a">>), Text(<<"a", "b">>), Num(5),
      Obj([Detail |-> Text(<<"d">>)]),
      Obj([ErrorCode |-> Text(E001), Detail |-> Text(<<"d">>)]) }

ResultSamples ==
    { List(xs) : xs \in SeqsUpTo(ElementSamples, MaxResultLen) }
    \cup ScalarSamples

StatusSamples == {Text(Success), Str(Success), Text(Failed), NoneV}

ReplySamples ==
    {NoneV, Obj(EmptyMap)}
    \cup { Obj([Status |-> s]) : s \in StatusSamples }
    \cup { Obj([Result |-> r]) : r \in ResultSamples }
    \cup { Obj([Status |-> s, Result |-> r]) :
             s \in StatusSamples, r \in ResultSamples }

Throws == [throws |-> TRUE, response |-> NoneV]
Replies(response) == [throws |-> FALSE, response |-> response]

\* what the endpoint does in the runs of the whole client
FewAnswers ==
    { Throws, Replies(NoneV),
      Replies(Obj([Status |-> Text(Success), Result |-> NoneV])),
      Replies(Obj([Status |-> Text(Failed),
                   Result |-> List(<<Obj([ErrorCode |-> Text(E001)])>>)])) }

ShapeAnswers ==
    FewAnswers
    \cup { Replies(Obj([Status |-> Text(Success), Result |-> r])) :
             r \in ScalarSamples
                   \cup { List(xs) :
                            xs \in SeqsUpTo({Text(<<"a">>),
                                             Obj([Detail |-> Text(<<"d">>)])},
                                            MaxResultLen) } }

AllFiles ==
    <<Str(InDir("a")), Str(InDir("b")), Str(InDir("c")), Str(InDir("d")),
      Str(InDir("e")), Str(InDir("f")), Str(InDir("g")), Str(<<"h">>)>>

Reverse(xs) == [i \in 1..Len(xs) |-> xs[Len(xs) + 1 - i]]

FilePathSamples ==
    { List(SubSeq(AllFiles, 1, n)) :
        n \in 0..Min2(MaxFiles + ExtraFiles, Len(AllFiles)) }
    \cup { List(Reverse(SubSeq(AllFiles, 1, n))) : n \in {2, MaxFiles} }
    \cup { List(<<Str(InDir("a")), p>>) :
             p \in {Str(InDir("m")), Str(InDir("z")), Str(Dir), Str(<<"h">>)} }
    \cup { Str(InDir("b")), Text(InDir("c")), NoneV }

FaxFileNameSamples ==
    { List(SubSeq(AllFiles, 1, n)) :
        n \in 0..Min2(MaxFiles + ExtraFiles, Len(AllFiles)) }
    \cup { List(Reverse(SubSeq(AllFiles, 1, n))) : n \in {2, MaxFiles} }
    \cup { Str(InDir("b")), Text(InDir("c")), NoneV }

ClientSamples ==
    { SRFax(Str(<<"i">>), Str(<<"p">>), ci, se, ac) :
        ci \in OptionalStrings("c"), se \in OptionalStrings("e"),
        ac \in OptionalStrings("k") }

DefaultClient == SRFax(Str(<<"i">>), Str(<<"p">>), Str(<<"c">>), Str(<<"e">>), NoneV)

---------------------------------------------------------------------------
(* Specifications *)

Idle ==
    /\ pc = "idle"
    /\ call = NoCall
    /\ sent = <<>>
    /\ outcome = NoOutcome

NoDefaults == SRFax(Str(<<"i">>), Str(<<"p">>), NoneV, NoneV, NoneV)

\* a client constructed without an access id, and without defaults
NoAccess == SRFax(NoneV, Str(<<"p">>), NoneV, Str(<<"e">>), NoneV)

Overrides(caller_id, sender_email, account_code) ==
    [caller_id |-> caller_id, sender_email |-> sender_email,
     account_code |-> account_code]

OverrideSamples ==
    { Overrides(NoneV, NoneV, NoneV),
      Overrides(Str(<<"C">>), Str(<<"E">>), Str(<<"K">>)) }

\* the whole client
Init ==
    /\ client \in {DefaultClient, NoDefaults, NoAccess}
    /\ to_fax_number \in DestinationSamples
    /\ Idle

Next ==
    \/ \E filepath \in FilePathSamples, o \in OverrideSamples,
          answer \in FewAnswers :
            queue_fax(filepath, o.caller_id, o.sender_email, o.account_code,
                      answer)
    \/ \E fax_id \in OptionalStrings("7"), answer \in ShapeAnswers :
            get_fax_status(fax_id, answer)
    \/ \E period \in {Str(<<"A", "L", "L">>), NoneV}, answer \in FewAnswers :
            get_fax_inbox(period, answer)
    \/ \E period \in {Str(<<"A", "L", "L">>), NoneV}, answer \in FewAnswers :
            get_fax_outbox(period, answer)
    \/ \E fax_filename \in {Str(InDir("a")), NoneV},
          folder \in {Str(<<"I", "N">>), NoneV},
          answer \in ShapeAnswers :
            retrieve_fax(fax_filename, folder, answer)
    \/ \E fax_filename \in FaxFileNameSamples,
          folder \in {Str(<<"I", "N">>), NoneV},
          answer \in FewAnswers :
            delete_fax(fax_filename, folder, answer)
    \/ Done

Spec == Init /\ [][Next]_vars

\* queue_fax over every combination of client defaults and per-call values
InitDefaults ==
    /\ client \in ClientSamples \cup {NoAccess}
    /\ to_fax_number \in {List(<<Nanp>>), List(<<Short>>), List(<<Nanp, Intl>>)}
    /\ Idle

NextDefaults ==
    \/ \E filepath \in { List(SubSeq(AllFiles, 1, n)) :
                           n \in {1, MaxFiles + ExtraFiles} }
                        \cup {List(<<Str(InDir("m"))>>)},
          caller_id \in OptionalStrings("C"),
          sender_email \in OptionalStrings("E"),
          account_code \in OptionalStrings("K"),
          answer \in {Throws,
                      Replies(Obj([Status |-> Text(Success),
                                   Result |-> NoneV]))} :
            queue_fax(filepath, caller_id, sender_email, account_code, answer)
    \/ Done

SpecDefaults == InitDefaults /\ [][NextDefaults]_vars

\* verify_fax_numbers alone, over the number samples
InitVerify ==
    /\ client = DefaultClient
    /\ to_fax_number \in { List(xs) : xs \in SeqsUpTo(NumberSamples, MaxDests) }
                         \cup NumberSamples \cup {NoneV}
    /\ Idle

NextVerify == VerifyFaxNumbers \/ Done

SpecVerify == InitVerify /\ [][NextVerify]_vars

\* process_response alone, over the reply samples
InitResponse ==
    /\ client = DefaultClient
    /\ to_fax_number = List(<<>>)
    /\ Idle

NextResponse ==
    \/ \E response \in ReplySamples : ProcessResponse(response)
    \/ Done

SpecResponse == InitResponse /\ [][NextResponse]_vars

---------------------------------------------------------------------------
(* Claims *)

\* '+' followed by 7 to 15 digits and nothing else
IsE164(s) ==
    /\ Len(s) >= MinDigits + 1
    /\ Len(s) <= MaxDigits + 1
    /\ s[1] = "+"
    /\ \A i \in 2..Len(s) : s[i] \in Digit

\* the dialable form of an E.164 number
Expected(s) ==
    IF s[2] = "1" THEN SubSeq(s, 2, Len(s))
    ELSE <<"0", "1", "1">> \o SubSeq(s, 2, Len(s))

VerifyEnded ==
    /\ pc = "done"
    /\ call.op = "verify_fax_numbers"
    /\ IsList(call.to_fax_number)

\* C1: verify_fax_numbers agrees with the reference on every list of strings:
\* when every number is '+' and 7 to 15 digits it returns, in order, the digits
\* after '+' of a '+1' number and '011' with the digits after '+' of any other;
\* otherwise it raises the validation error naming the first number that is
\* not, and returns nothing.
C1_NormalizationMatchesReference ==
    VerifyEnded =>
        LET xs == Val(call.to_fax_number)
            bad == {i \in 1..Len(xs) : ~IsE164(Val(xs[i]))}
        IN  IF bad = {}
            THEN /\ outcome.kind = "return"
                 /\ IsList(outcome.value)
                 /\ Len(Val(outcome.value)) = Len(xs)
                 /\ \A i \in 1..Len(xs) :
                       Val(outcome.value)[i] = Str(Expected(Val(xs[i])))
            ELSE /\ outcome.kind = "raise"
                 /\ outcome.exc.type = "TypeError"
                 /\ outcome.exc.site = "e164"
                 /\ \E i \in bad :
                       /\ \A j \in bad : i <= j
                       /\ outcome.exc.arg = xs[i]

Ended(op) == pc = "done" /\ call.op = op

\* the entries of a list-or-string argument
Entries(v) == IF IsList(v) THEN Val(v) ELSE <<v>>

\* destinations the normalisation accepts: a list of E.164 numbers, or one
DestinationsValid(v) ==
    \/ IsList(v) /\ \A i \in 1..Len(Val(v)) : IsE164(Val(Val(v)[i]))
    \/ Tag(v) = "str" /\ IsE164(Val(v))

NonEmpty(v) == Tag(v) = "str" /\ Len(Val(v)) > 0

\* the caller ID and the sender email each have a value to send
SenderSet ==
    /\ NonEmpty(call.caller_id) \/ ~IsNone(client.caller_id)
    /\ NonEmpty(call.sender_email) \/ ~IsNone(client.sender_email)

\* the access id and the password were given at construction
CredentialsSet ==
    /\ ~IsNone(client.access_id)
    /\ ~IsNone(client.access_pwd)

Readable(path) ==
    /\ Val(path) \in DOMAIN FileSystem
    /\ FileSystem[Val(path)].isfile
    /\ Len(FileSystem[Val(path)].content) > 0

QueueKeys ==
    {"access_id", "access_pwd", "sCallerID", "sSenderEmail", "sFaxType",
     "sToFaxNumber", "sAccountCode"}

DeleteKeys == {"access_id", "access_pwd", "sDirection"}

FileNameKey ==
    <<"sFileName_1", "sFileName_2", "sFileName_3", "sFileName_4",
      "sFileName_5">>

FileContentKey ==
    <<"sFileContent_1", "sFileContent_2", "sFileContent_3", "sFileContent_4",
      "sFileContent_5">>

FileCountError ==
    /\ outcome.kind = "raise"
    /\ outcome.exc.site = "too_many_files"
    /\ sent = <<>>

\* 1 to 5 entries and otherwise valid inputs: one request, with exactly the
\* numbered keys _1.._N, the i-th holding the i-th entry's name and content
QueueFilesNumbered ==
    ( /\ Ended("queue_fax")
      /\ IsList(call.filepath) \/ IsBaseString(call.filepath)
      /\ Len(Entries(call.filepath)) \in 1..MaxFiles
      /\ \A i \in 1..Len(Entries(call.filepath)) :
            Readable(Entries(call.filepath)[i])
      /\ DestinationsValid(call.to_fax_number)
      /\ CredentialsSet
      /\ SenderSet )
    => LET fs == Entries(call.filepath) IN
       /\ Len(sent) = 1
       /\ sent[1].method = "Queue_Fax"
       /\ DOMAIN sent[1].params =
            QueueKeys \cup {FileNameKey[i] : i \in 1..Len(fs)}
                      \cup {FileContentKey[i] : i \in 1..Len(fs)}
       /\ \A i \in 1..Len(fs) :
            /\ sent[1].params[FileNameKey[i]] = basename(fs[i])
            /\ sent[1].params[FileContentKey[i]] =
                 Str(b64encode(FileSystem[Val(fs[i])].content))

DeleteFilesNumbered ==
    ( /\ Ended("delete_fax")
      /\ IsList(call.fax_filename) \/ Tag(call.fax_filename) = "str"
      /\ Len(Entries(call.fax_filename)) \in 1..MaxFiles
      /\ CredentialsSet
      /\ ~IsNone(call.folder) )
    => LET fs == Entries(call.fax_filename) IN
       /\ Len(sent) = 1
       /\ sent[1].method = "Delete_Fax"
       /\ DOMAIN sent[1].params =
            DeleteKeys \cup {FileNameKey[i] : i \in 1..Len(fs)}
       /\ \A i \in 1..Len(fs) : sent[1].params[FileNameKey[i]] = fs[i]

\* C2 as stated: every queue_fax or delete_fax call with more than 5 entries
\* ends in the file-count error without a request; a call with 1 to 5 entries
\* and otherwise valid inputs sends exactly the numbered keys, in input order.
C2_FileCountAnyCall ==
    /\ ( /\ Ended("queue_fax")
         /\ IsList(call.filepath)
         /\ Len(Val(call.filepath)) > MaxFiles ) => FileCountError
    /\ ( /\ Ended("delete_fax")
         /\ IsList(call.fax_filename)
         /\ Len(Val(call.fax_filename)) > MaxFiles ) => FileCountError
    /\ QueueFilesNumbered
    /\ DeleteFilesNumbered

\* C2, amended: a delete_fax call with more than 5 entries, and a queue_fax
\* call with more than 5 entries whose destinations are valid, ends in the
\* file-count error without a request; a call with 1 to 5 entries and
\* otherwise valid inputs sends exactly the numbered keys, in input order.
C2_FileCountAndNumbering ==
    /\ ( /\ Ended("queue_fax")
         /\ IsList(call.filepath)
         /\ Len(Val(call.filepath)) > MaxFiles
         /\ DestinationsValid(call.to_fax_number) ) => FileCountError
    /\ ( /\ Ended("delete_fax")
         /\ IsList(call.fax_filename)
         /\ Len(Val(call.fax_filename)) > MaxFiles ) => FileCountError
    /\ QueueFilesNumbered
    /\ DeleteFilesNumbered

\* five files in reverse order were sent, and a sixth file was refused
C2_Witness ==
    /\ Ended("queue_fax")
    /\ call.filepath = List(Reverse(SubSeq(AllFiles, 1, MaxFiles)))
    /\ Len(sent) = 1
    /\ sent[1].params["sFileName_1"] = Str(<<"e">>)
    /\ sent[1].params["sFileName_5"] = Str(<<"a">>)

ResponseEnded == Ended("process_response")

HasBoth(r) ==
    /\ Tag(r) = "object"
    /\ {"Status", "Result"} \subseteq DOMAIN Val(r)

IsSuccess(status) == IsBaseString(status) /\ Val(status) = Success

\* an element the coercion leaves alone or can coerce: a falsy one, a text,
\* a record whose values are text, numbers or null
CoercesElement(e) ==
    \/ ~Truthy(e)
    \/ IsText(e)
    \/ /\ Tag(e) = "object"
       /\ \A k \in DOMAIN Val(e) : Tag(Val(e)[k]) \in {"none", "text", "int"}

Coerces(result) ==
    IsList(result) => \A i \in 1..Len(Val(result)) : CoercesElement(Val(result)[i])

ClassifiedAs(code, retry) ==
    /\ outcome.kind = "raise"
    /\ outcome.exc.type = "SRFaxError"
    /\ outcome.exc.error_code = code
    /\ outcome.exc.retry = retry

\* the message of a failed request: the ErrorCode of a one-element sequence
\* holding a mapping that has one, else the whole payload
FailureMessage(payload) ==
    IF /\ IsList(payload)
       /\ Len(Val(payload)) = 1
       /\ Tag(Val(payload)[1]) \in {"dict", "object"}
       /\ "ErrorCode" \in DOMAIN Val(Val(payload)[1])
    THEN Val(Val(payload)[1])["ErrorCode"]
    ELSE payload

\* C3: a reply with both fields, a Result that coerces and a Status other
\* than 'Success' fails as REQUESTFAILED, not retryable, whatever the shape of
\* Result; the message is the ErrorCode of a one-element sequence holding a
\* mapping that has one, else the whole payload.
C3_FailedStatusIsRequestFailed ==
    ( /\ ResponseEnded
      /\ HasBoth(call.response)
      /\ Coerces(Val(call.response)["Result"])
      /\ ~IsSuccess(Val(call.response)["Status"]) )
    => /\ ClassifiedAs("REQUESTFAILED", FALSE)
       /\ outcome.exc.arg =
            FailureMessage(ConvertResult(Val(call.response)["Result"]).value)

\* C4: an empty or absent reply, a reply without Status or without Result
\* (whatever the field that is there holds), and a reply whose Result fails to
\* coerce, fail as INVALIDRESPONSE, retryable.
C4_BadShapeIsInvalidResponse ==
    ( /\ ResponseEnded
      /\ \/ ~Truthy(call.response)
         \/ ~HasBoth(call.response)
         \/ ~Coerces(Val(call.response)["Result"]) )
    => ClassifiedAs("INVALIDRESPONSE", TRUE)

\* Status 'Failed' without a Result field was classified INVALIDRESPONSE
C4_Witness ==
    /\ ResponseEnded
    /\ call.response = Obj([Status |-> Text(Failed)])
    /\ ClassifiedAs("INVALIDRESPONSE", TRUE)

\* what C5 says of a returned value
SuccessReturn(result) ==
    /\ outcome.kind = "return"
    /\ (Tag(outcome.value) = "bool" /\ Val(outcome.value)) <=> IsNone(result)
    /\ IsList(result) =>
         /\ IsList(outcome.value)
         /\ Len(Val(outcome.value)) = Len(Val(result))
         /\ \A i \in 1..Len(Val(result)) :
               IF ~Truthy(Val(result)[i])
               THEN Val(outcome.value)[i] = Val(result)[i]
               ELSE IsText(Val(result)[i]) =>
                       Val(outcome.value)[i] = Str(Val(Val(result)[i]))

\* C5 as stated: every reply with Status 'Success' and a Result field returns
\* without error: true exactly when Result is null, and a sequence of the same
\* length and order with falsy elements unchanged and text as equal strings.
C5_EverySuccessReturns ==
    ( /\ ResponseEnded
      /\ HasBoth(call.response)
      /\ IsSuccess(Val(call.response)["Status"]) )
    => SuccessReturn(Val(call.response)["Result"])

\* C5, amended: the same of every reply with Status 'Success' and a Result
\* field whose Result coerces without failure.
C5_CoercibleSuccessReturns ==
    ( /\ ResponseEnded
      /\ HasBoth(call.response)
      /\ IsSuccess(Val(call.response)["Status"])
      /\ Coerces(Val(call.response)["Result"]) )
    => SuccessReturn(Val(call.response)["Result"])

\* ['a', 'b'] came back as ['a', 'b']
C5_Witness ==
    /\ ResponseEnded
    /\ call.response = Obj([Status |-> Text(Success),
                            Result |-> List(<<Text(<<"a">>), Text(<<"b">>)>>)])
    /\ outcome = Return(List(<<Str(<<"a">>), Str(<<"b">>)>>))

\* C6: an operation invokes the endpoint at most once; when the invocation
\* throws, the operation raises REQUESTFAILED, retryable, with the thrown
\* failure as cause, and the response normaliser is not run.
C6_AtMostOneInvocation ==
    /\ Len(sent) <= 1
    /\ ( /\ pc = "done"
         /\ Len(sent) >= 1
         /\ call.answer.throws )
       => /\ ClassifiedAs("REQUESTFAILED", TRUE)
          /\ outcome.exc.cause = "TransportError"
          /\ ~call.normalized

\* the endpoint threw in a delete_fax call and was invoked once
C6_Witness ==
    /\ Ended("delete_fax")
    /\ Len(sent) = 1
    /\ call.answer.throws
    /\ ClassifiedAs("REQUESTFAILED", TRUE)

\* the dialable numbers of xs joined with '|'
RECURSIVE ExpectedJoined(_)
ExpectedJoined(xs) ==
    IF Len(xs) = 1 THEN Expected(Val(xs[1]))
    ELSE ExpectedJoined(SubSeq(xs, 1, Len(xs) - 1))
         \o <<"|">> \o Expected(Val(xs[Len(xs)]))

\* C7: for a non-empty sequence of valid destinations queue_fax sends the
\* normalised numbers joined with '|' in input order, and the fax type
\* BROADCAST exactly when there is more than one destination, else SINGLE.
C7_DestinationsInOrder ==
    ( /\ Ended("queue_fax")
      /\ sent # <<>>
      /\ IsList(call.to_fax_number)
      /\ Len(Val(call.to_fax_number)) >= 1
      /\ DestinationsValid(call.to_fax_number) )
    => /\ sent[1].params["sToFaxNumber"] =
            Str(ExpectedJoined(Val(call.to_fax_number)))
       /\ sent[1].params["sFaxType"] =
            IF Len(Val(call.to_fax_number)) > 1
            THEN Str(<<"B", "R", "O", "A", "D", "C", "A", "S", "T">>)
            ELSE Str(<<"S", "I", "N", "G", "L", "E">>)

\* two destinations were sent in the caller's order, as a broadcast
C7_Witness ==
    /\ Ended("queue_fax")
    /\ call.to_fax_number = List(<<Intl, Nanp>>)
    /\ Len(sent) = 1
    /\ sent[1].params["sFaxType"] = Str(BROADCAST)
    /\ sent[1].params["sToFaxNumber"] =
         Str(<<"0", "1", "1">> \o Digits("4", 12) \o <<"|">> \o Digits("1", 11))

\* the value a field resolves to when "given" means "not null"
GivenOrDefault(per_call, default) ==
    IF ~IsNone(per_call) THEN per_call ELSE default

\* the value a field resolves to when "given" means "given and not empty"
NonEmptyOrDefault(per_call, default) ==
    IF NonEmpty(per_call) THEN per_call ELSE default

OrEmpty(v) == IF NonEmpty(v) THEN v ELSE Str(<<>>)

ConfigurationError(keys) ==
    /\ outcome.kind = "raise"
    /\ outcome.exc.type = "TypeError"
    /\ outcome.exc.site = "not_set"
    /\ outcome.exc.key \in keys
    /\ sent = <<>>

\* C8 as stated: the parameter sent is the per-call value when one is given,
\* else the client default, else (account code only) the empty string; when
\* caller ID or sender email has neither, the call ends in the configuration
\* error naming that key, without a request.
C8_GivenValueWins ==
    Ended("queue_fax") =>
        /\ sent # <<>> =>
             /\ sent[1].params["sCallerID"] =
                  GivenOrDefault(call.caller_id, client.caller_id)
             /\ sent[1].params["sSenderEmail"] =
                  GivenOrDefault(call.sender_email, client.sender_email)
             /\ sent[1].params["sAccountCode"] =
                  OrEmpty(GivenOrDefault(call.account_code,
                                         client.account_code))
        /\ LET missing ==
                 {k \in {"sCallerID", "sSenderEmail"} :
                    IF k = "sCallerID"
                    THEN IsNone(call.caller_id) /\ IsNone(client.caller_id)
                    ELSE IsNone(call.sender_email)
                         /\ IsNone(client.sender_email)}
           IN  missing # {} => ConfigurationError(missing)

\* C8, amended: the parameter sent is the per-call value when a non-empty one
\* is given, else the client default, else (account code only) the empty
\* string; when caller ID or sender email has no non-empty per-call value and
\* no client default, a call with credentials, valid destinations and at most
\* 5 file paths ends in the configuration error naming such a key, without a
\* request; a missing account code stops no call.
C8_NonEmptyValueWins ==
    Ended("queue_fax") =>
        LET missing ==
              {k \in {"sCallerID", "sSenderEmail"} :
                 IF k = "sCallerID"
                 THEN ~NonEmpty(call.caller_id) /\ IsNone(client.caller_id)
                 ELSE ~NonEmpty(call.sender_email)
                      /\ IsNone(client.sender_email)}
            proper ==
              /\ DestinationsValid(call.to_fax_number)
              /\ IsList(call.filepath)
              /\ Len(Val(call.filepath)) <= MaxFiles
              /\ CredentialsSet
            readable ==
              \A i \in 1..Len(Val(call.filepath)) :
                 Readable(Val(call.filepath)[i])
        IN  /\ sent # <<>> =>
                 /\ sent[1].params["sCallerID"] =
                      NonEmptyOrDefault(call.caller_id, client.caller_id)
                 /\ sent[1].params["sSenderEmail"] =
                      NonEmptyOrDefault(call.sender_email, client.sender_email)
                 /\ sent[1].params["sAccountCode"] =
                      OrEmpty(NonEmptyOrDefault(call.account_code,
                                                client.account_code))
            /\ (proper /\ missing # {}) => ConfigurationError(missing)
            /\ (proper /\ readable /\ missing = {}) => Len(sent) = 1

\* an empty per-call caller ID gave way to the client's default, and no
\* account code at all was sent as the empty string
C8_Witness ==
    /\ Ended("queue_fax")
    /\ call.caller_id = Str(<<>>)
    /\ client.caller_id = Str(<<"c">>)
    /\ IsNone(call.account_code)
    /\ IsNone(client.account_code)
    /\ Len(sent) = 1
    /\ sent[1].params["sCallerID"] = Str(<<"c">>)
    /\ sent[1].params["sAccountCode"] = Str(<<>>)

\* C9: get_fax_status and retrieve_fax return the sole element of a
\* one-element sequence, and every other normalised result unchanged and
\* without raising: true, a string of any length, a mapping with any number of
\* keys, an empty sequence, a longer sequence.
C9_OnlySingletonsUnwrapped ==
    ( /\ pc = "done"
      /\ call.op \in {"get_fax_status", "retrieve_fax"}
      /\ call.normalized
      /\ process_response(call.answer.response).kind = "return" )
    => LET n == process_response(call.answer.response).value IN
       IF IsList(n) /\ Len(Val(n)) = 1
       THEN outcome = Return(Val(n)[1])
       ELSE outcome = Return(n)

\* C10: no operation changes the destination sequence the caller passed, nor
\* the client's credentials and defaults.
C10_CallerDataUnchanged ==
    [][to_fax_number' = to_fax_number /\ client' = client]_vars

=============================================================================
